---- MODULE Spec2Model ----
(***************************************************************************)
(* A model of the consensus framework of blockchain-from-scratch,          *)
(* chapter 3 (c3_consensus): the engines PoW, SimplePoa,                   *)
(* PoaRoundRobinByHeight, PoaRoundRobinBySlot, the higher-order engines    *)
(* EvenOnly, DoubleEngine and Forked, and the digest conversions of        *)
(* PowOrPoaDigest; and of chapter 2 (c2_blockchain): headers and blocks    *)
(* with batched extrinsics, chain verification, the fork choice rules and  *)
(* mine_extra_hard.                                                        *)
(*                                                                         *)
(* The engines are pure functions.  Each specification draws an engine,    *)
(* a parent digest and a header in Init (pc = "call") and one action per   *)
(* engine operation applies the operation and records what it returned     *)
(* (pc = "done").  SpecVerify and SpecForkChoice do the same for the       *)
(* chapter 2 functions; SpecBuild is a program that builds a chain block   *)
(* by block and then verifies it.                                          *)
(***************************************************************************)
EXTENDS Integers, Sequences, FiniteSets, TLC

VARIABLES
    engine,         \* the consensus engine (or fork choice rule) called
    call,           \* the operation to be called, by name
    parent_digest,  \* the parent_digest argument
    header,         \* the header argument (a partial header for seal)
    pc,             \* "call" before the operation ran, "done" after it
    result,         \* what the operation returned
    block,          \* c2_blockchain: the header or block a call is made on
    chain,          \* c2_blockchain: the chain (or candidate chains) argument
    hard_threshold, \* c2_blockchain: the threshold argument of mine_extra_hard
    extrinsics_given, \* c2_blockchain: the arguments of the Block::child calls
    checked_build   \* c2_blockchain: whether the build has overflow checks

vars == <<engine, call, parent_digest, header, pc, result, block, chain,
          hard_threshold, extrinsics_given, checked_build>>

(***************************************************************************)
(* Bounds.  u64 is scaled down to 0..MaxU64; arithmetic that can overflow  *)
(* is done modulo MaxU64 + 1 (release build) or panics (debug build).      *)
(***************************************************************************)
MaxU64 == 3
MaxHeight == 3

U64 == 0..MaxU64
Heights == 0..MaxHeight
\* parent and extrinsics_root only ever feed the hash: two sample values each
SampleRoots == {0, MaxU64}

(***************************************************************************)
(* The data model of c3_consensus/mod.rs.                                  *)
(***************************************************************************)
Authorities == <<"Alice", "Bob", "Charlie">>

ConsensusAuthority == {Authorities[i] : i \in 1..Len(Authorities)}

from_index(n) == Authorities[(n % Len(Authorities)) + 1]

ConsensusAuthority_default == Authorities[1]

\* the digest () of a partial header
Unit == "()"

Header(p, h, s, x, d) ==
    [parent |-> p, height |-> h, state_root |-> s, extrinsics_root |-> x,
     consensus_digest |-> d]

convert_to_digest(partial_header, digest) ==
    [partial_header EXCEPT !.consensus_digest = digest]

\* crate::hash on a Header<u64>: a deterministic map onto the u64 range
hash(h) ==
    (3 * h.parent + 5 * h.height + 7 * h.state_root + 11 * h.extrinsics_root
       + h.consensus_digest + 1) % (MaxU64 + 1)

(***************************************************************************)
(* Option<Header<Digest>>, and the two ways a call does not return.        *)
(***************************************************************************)
Some(h) == [tag |-> "Some", header |-> h]
None == [tag |-> "None"]
Panic == [tag |-> "Panic"]
Diverge == [tag |-> "Diverge"]

Returned(r) == r.tag \in {"Some", "None"}

(***************************************************************************)
(* p1_pow.rs                                                               *)
(***************************************************************************)
PoW(threshold) == [kind |-> "PoW", threshold |-> threshold]

PoW_validate(self, pd, h) == h.consensus_digest < self.threshold

\* The while loop of PoW::seal.  consensus_digest += 1 at u64::MAX panics
\* when overflow checks are on; otherwise the nonce wraps to 0 and the loop
\* walks the same nonces again without end.
RECURSIVE PoW_seal_loop(_, _, _)
PoW_seal_loop(self, h, overflow_checks) ==
    IF hash(h) < self.threshold THEN Some(h)
    ELSE IF h.consensus_digest = MaxU64
         THEN (IF overflow_checks THEN Panic ELSE Diverge)
         ELSE PoW_seal_loop(self,
                  [h EXCEPT !.consensus_digest = @ + 1], overflow_checks)

PoW_seal(self, pd, partial_header, overflow_checks) ==
    PoW_seal_loop(self, convert_to_digest(partial_header, 0), overflow_checks)

(***************************************************************************)
(* p3_poa.rs                                                               *)
(***************************************************************************)
\* Vec::contains
Contains(vec, x) == \E i \in 1..Len(vec) : vec[i] = x

SimplePoa(authorities) == [kind |-> "SimplePoa", authorities |-> authorities]

SimplePoa_validate(self, pd, h) == Contains(self.authorities, h.consensus_digest)

SimplePoa_seal(self, pd, partial_header) ==
    Some(convert_to_digest(partial_header, "Alice"))

PoaRoundRobinByHeight(authorities) ==
    [kind |-> "PoaRoundRobinByHeight", authorities |-> authorities]

\* a round robin that counts from the parent's height
PoaRoundRobinByHeight_validate_off_by_one(self, pd, h) ==
    h.consensus_digest = from_index(h.height + 1)

PoaRoundRobinByHeight_validate(self, pd, h) ==
    h.consensus_digest = from_index(h.height)

PoaRoundRobinByHeight_seal(self, pd, partial_header) ==
    Some(convert_to_digest(partial_header, from_index(partial_header.height)))

PoaRoundRobinBySlot(authorities) ==
    [kind |-> "PoaRoundRobinBySlot", authorities |-> authorities]

SlotDigest(slot, signature) == [slot |-> slot, signature |-> signature]

\* a slot test that lets the parent's slot be used again
PoaRoundRobinBySlot_validate_not_strict(self, pd, h) ==
    LET slot_cond == h.consensus_digest.slot >= pd.slot
        auth_cond == h.consensus_digest.signature
                        = from_index(h.consensus_digest.slot)
    IN  slot_cond /\ auth_cond

PoaRoundRobinBySlot_validate(self, pd, h) ==
    LET slot_cond == h.consensus_digest.slot > pd.slot
        auth_cond == h.consensus_digest.signature
                        = from_index(h.consensus_digest.slot)
    IN  slot_cond /\ auth_cond

\* parent_digest.slot + 1 at u64::MAX panics when overflow checks are on and
\* wraps to 0 otherwise.
PoaRoundRobinBySlot_seal(self, pd, partial_header, overflow_checks) ==
    IF pd.slot = MaxU64 /\ overflow_checks THEN Panic
    ELSE LET slot == (pd.slot + 1) % (MaxU64 + 1)
             digest == SlotDigest(slot, from_index(slot))
         IN  Some(convert_to_digest(partial_header, digest))

(***************************************************************************)
(* p6_forking.rs: PowOrPoaDigest and the From conversions between digest   *)
(* types.  A digest type is named by a string.                             *)
(***************************************************************************)
Pow(d) == [tag |-> "Pow", val |-> d]
Poa(a) == [tag |-> "Poa", val |-> a]

PowOrPoaDigest == {Pow(d) : d \in U64} \cup {Poa(a) : a \in ConsensusAuthority}

\* impl From<PowOrPoaDigest> for ConsensusAuthority
PowOrPoa_into_authority(d) ==
    IF d.tag = "Pow" THEN ConsensusAuthority_default ELSE d.val

\* impl From<PowOrPoaDigest> for u64
PowOrPoa_into_u64(d) ==
    IF d.tag = "Pow" THEN d.val ELSE 0

\* d.into(), for d of digest type `from`, as a value of digest type `to`
Into(from, to, d) ==
    IF from = to THEN d
    ELSE IF from = "u64" /\ to = "PowOrPoaDigest" THEN Pow(d)
    ELSE IF from = "ConsensusAuthority" /\ to = "PowOrPoaDigest" THEN Poa(d)
    ELSE IF from = "PowOrPoaDigest" /\ to = "ConsensusAuthority"
         THEN PowOrPoa_into_authority(d)
    ELSE PowOrPoa_into_u64(d)

(***************************************************************************)
(* The Consensus trait: validate and seal dispatch on the engine.          *)
(* p4_even_only.rs (EvenOnly) and p6_forking.rs (Forked) are the           *)
(* higher-order engines.                                                   *)
(***************************************************************************)
EvenOnly(inner) == [kind |-> "EvenOnly", inner |-> inner]

Forked(D, fork_height, before, after) ==
    [kind |-> "Forked", digest |-> D, fork_height |-> fork_height,
     before |-> before, after |-> after]

\* the associated type Consensus::Digest
RECURSIVE DigestType(_)
DigestType(self) ==
    CASE self.kind = "PoW" -> "u64"
      [] self.kind = "SimplePoa" -> "ConsensusAuthority"
      [] self.kind = "PoaRoundRobinByHeight" -> "ConsensusAuthority"
      [] self.kind = "PoaRoundRobinBySlot" -> "SlotDigest"
      [] self.kind = "EvenOnly" -> DigestType(self.inner)
      [] self.kind = "Forked" -> self.digest

\* the test with the wrong bit value
IsEven_inverted(state_root) == (state_root % 2) # 0

\* header.state_root & 1 != 1
IsEven(state_root) == (state_root % 2) # 1

RECURSIVE validate(_, _, _)
RECURSIVE seal(_, _, _, _)

EvenOnly_validate(self, pd, h) ==
    LET inner_valid == validate(self.inner, pd, h)
        valid == IsEven(h.state_root)
    IN  inner_valid /\ valid

\* unwrap() panics on None; `Some(header);` is an expression statement whose
\* value is dropped, so whenever the function returns it returns None.
EvenOnly_seal(self, pd, partial_header, overflow_checks) ==
    LET sealed == seal(self.inner, pd, partial_header, overflow_checks)
    IN  IF sealed.tag = "None" THEN Panic
        ELSE IF sealed.tag # "Some" THEN sealed
        ELSE None

\* a fork that takes effect one block late
Forked_validate_late(self, pd, h) ==
    IF h.height <= self.fork_height
    THEN validate(self.before,
                  Into(self.digest, DigestType(self.before), pd),
                  convert_to_digest(h,
                      Into(self.digest, DigestType(self.before),
                           h.consensus_digest)))
    ELSE validate(self.after,
                  Into(self.digest, DigestType(self.after), pd),
                  convert_to_digest(h,
                      Into(self.digest, DigestType(self.after),
                           h.consensus_digest)))

Forked_validate(self, pd, h) ==
    IF h.height < self.fork_height
    THEN LET b_d_parent == Into(self.digest, DigestType(self.before), pd)
             header_new == Header(h.parent, h.height, h.state_root,
                 h.extrinsics_root,
                 Into(self.digest, DigestType(self.before), h.consensus_digest))
         IN  validate(self.before, b_d_parent, header_new)
    ELSE LET a_d_parent == Into(self.digest, DigestType(self.after), pd)
             header_new == Header(h.parent, h.height, h.state_root,
                 h.extrinsics_root,
                 Into(self.digest, DigestType(self.after), h.consensus_digest))
         IN  validate(self.after, a_d_parent, header_new)

Forked_seal(self, pd, partial_header, overflow_checks) ==
    IF partial_header.height < self.fork_height
    THEN LET b_d_parent == Into(self.digest, DigestType(self.before), pd)
             sealed == seal(self.before, b_d_parent, partial_header,
                            overflow_checks)
         IN  IF sealed.tag # "Some" THEN sealed
             ELSE LET s == sealed.header
                  IN  Some(Header(s.parent, s.height, s.state_root,
                          s.extrinsics_root,
                          Into(DigestType(self.before), self.digest,
                               s.consensus_digest)))
    ELSE LET a_d_parent == Into(self.digest, DigestType(self.after), pd)
             sealed == seal(self.after, a_d_parent, partial_header,
                            overflow_checks)
         IN  IF sealed.tag # "Some" THEN sealed
             ELSE LET s == sealed.header
                  IN  Some(Header(s.parent, s.height, s.state_root,
                          s.extrinsics_root,
                          Into(DigestType(self.after), self.digest,
                               s.consensus_digest)))

validate(self, pd, h) ==
    CASE self.kind = "PoW" -> PoW_validate(self, pd, h)
      [] self.kind = "SimplePoa" -> SimplePoa_validate(self, pd, h)
      [] self.kind = "PoaRoundRobinByHeight" ->
             PoaRoundRobinByHeight_validate(self, pd, h)
      [] self.kind = "PoaRoundRobinBySlot" ->
             PoaRoundRobinBySlot_validate(self, pd, h)
      [] self.kind = "EvenOnly" -> EvenOnly_validate(self, pd, h)
      [] self.kind = "Forked" -> Forked_validate(self, pd, h)

seal(self, pd, partial_header, overflow_checks) ==
    CASE self.kind = "PoW" -> PoW_seal(self, pd, partial_header, overflow_checks)
      [] self.kind = "SimplePoa" -> SimplePoa_seal(self, pd, partial_header)
      [] self.kind = "PoaRoundRobinByHeight" ->
             PoaRoundRobinByHeight_seal(self, pd, partial_header)
      [] self.kind = "PoaRoundRobinBySlot" ->
             PoaRoundRobinBySlot_seal(self, pd, partial_header, overflow_checks)
      [] self.kind = "EvenOnly" ->
             EvenOnly_seal(self, pd, partial_header, overflow_checks)
      [] self.kind = "Forked" ->
             Forked_seal(self, pd, partial_header, overflow_checks)

\* the constructors of p6_forking.rs
change_authorities(fork_height, initial_authorities, final_authorities) ==
    Forked("ConsensusAuthority", fork_height,
           SimplePoa(initial_authorities), SimplePoa(final_authorities))

change_difficulty(fork_height, initial_difficulty, final_difficulty) ==
    Forked("u64", fork_height, PoW(initial_difficulty), PoW(final_difficulty))

even_after_given_height(fork_height, original) ==
    Forked(DigestType(original), fork_height, original, EvenOnly(original))

pow_to_poa(fork_height, threshold, authorities) ==
    Forked("PowOrPoaDigest", fork_height, PoW(threshold), SimplePoa(authorities))

(***************************************************************************)
(* p5_interleave.rs                                                        *)
(***************************************************************************)
DoubleHeader(p, h, s, x, d1, d2) ==
    [parent |-> p, height |-> h, state_root |-> s, extrinsics_root |-> x,
     consensus_digest |-> d1, consensus_digest2 |-> d2]

to_header(self, digest) ==
    Header(self.parent, self.height, self.state_root, self.extrinsics_root,
           digest)

DoubleEngine(e1, e2) == [kind |-> "DoubleEngine", e1 |-> e1, e2 |-> e2]

\* Digest::default() of the digest types that have one
Default(D) == IF D = "u64" THEN 0 ELSE ConsensusAuthority_default

\* the parity test the other way round
validate_with_which_swapped(h) == IF h.height % 2 = 0 THEN "Second" ELSE "First"

validate_with_which(h) == IF h.height % 2 = 0 THEN "First" ELSE "Second"

DoubleEngine_validate(self, h) ==
    LET which == validate_with_which(h)
    IN  IF which = "First"
        THEN validate(self.e1, Default(DigestType(self.e1)),
                      to_header(h, h.consensus_digest))
        ELSE validate(self.e2, Default(DigestType(self.e2)),
                      to_header(h, h.consensus_digest2))

\* The match of DoubleEngine::seal has the single arm Which::First, which
\* calls self.1.seal; the arm for Which::Second is commented out, so no
\* engine seals on that side.
DoubleEngine_seal_engine(partial_header) ==
    LET which == validate_with_which(partial_header)
    IN  IF which = "First" THEN "Second" ELSE "NoArm"

\* The sealed header is handed back as engine 2 produced it (sealed_by names
\* the engine whose seal ran); without a match arm there is nothing to return.
DoubleEngine_seal(self, partial_header, overflow_checks) ==
    IF DoubleEngine_seal_engine(partial_header) = "Second"
    THEN LET sealed == seal(self.e2, Default(DigestType(self.e2)),
                            to_header(partial_header,
                                      partial_header.consensus_digest2),
                            overflow_checks)
         IN  IF sealed.tag = "Some"
             THEN [tag |-> "Some", header |-> sealed.header,
                   sealed_by |-> "Second"]
             ELSE sealed
    ELSE [tag |-> "NoArm"]

(***************************************************************************)
(* The inputs the specifications draw.                                     *)
(***************************************************************************)
SlotDigests == {SlotDigest(s, a) : s \in U64, a \in ConsensusAuthority}

Digests(D) ==
    CASE D = "u64" -> U64
      [] D = "ConsensusAuthority" -> ConsensusAuthority
      [] D = "SlotDigest" -> SlotDigests
      [] D = "PowOrPoaDigest" -> PowOrPoaDigest

PartialHeaders ==
    {Header(p, h, s, x, Unit) :
        p \in SampleRoots, h \in Heights, s \in U64, x \in SampleRoots}

Headers(D) ==
    {convert_to_digest(ph, d) : ph \in PartialHeaders, d \in Digests(D)}

\* the sub-lists of Authorities, as authority lists of the PoA engines
RECURSIVE SubLists(_)
SubLists(vec) ==
    IF vec = <<>> THEN {<<>>}
    ELSE LET rest == SubLists(Tail(vec))
         IN  rest \cup {<<Head(vec)>> \o r : r \in rest}

AuthorityLists == SubLists(Authorities)

\* for the higher-order engines: a list with seal's signer and one without
SomeAuthorityLists == {<<Authorities[1]>>, Tail(Authorities)}

SomeThresholds == {1, MaxU64}

ForkHeights == 0..(MaxHeight + 1)

NoResult == "none"

\* the variables of c2_blockchain, in a call of a consensus engine
NoBlockchain ==
    /\ block = Unit /\ chain = Unit /\ hard_threshold = Unit
    /\ extrinsics_given = Unit /\ checked_build = Unit

InitWith(Engines) ==
    /\ engine \in Engines
    /\ call \in {"validate", "seal"}
    /\ parent_digest \in Digests(DigestType(engine))
    /\ header \in (IF call = "validate" THEN Headers(DigestType(engine))
                   ELSE PartialHeaders)
    /\ pc = "call"
    /\ result = NoResult
    /\ NoBlockchain

Return(r) ==
    /\ result' = r
    /\ pc' = "done"
    /\ UNCHANGED <<engine, call, parent_digest, header, block, chain,
                   hard_threshold, extrinsics_given, checked_build>>

Calling(kind, op) == pc = "call" /\ call = op /\ engine.kind = kind

(***************************************************************************)
(* SpecPoW: calls of PoW::validate and PoW::seal.                          *)
(***************************************************************************)
PoWEngines == {PoW(t) : t \in U64}

InitPoW == InitWith(PoWEngines)

CallPoWValidate ==
    /\ Calling("PoW", "validate")
    /\ Return(PoW_validate(engine, parent_digest, header))

CallPoWSeal ==
    /\ Calling("PoW", "seal")
    /\ \E overflow_checks \in BOOLEAN :
          Return(PoW_seal(engine, parent_digest, header, overflow_checks))

NextPoW == CallPoWValidate \/ CallPoWSeal

SpecPoW == InitPoW /\ [][NextPoW]_vars

(***************************************************************************)
(* SpecPoa: calls of the three proof-of-authority engines.                 *)
(***************************************************************************)
PoaEngines ==
    {SimplePoa(a) : a \in AuthorityLists}
        \cup {PoaRoundRobinByHeight(a) : a \in AuthorityLists}
        \cup {PoaRoundRobinBySlot(a) : a \in SomeAuthorityLists}

InitPoa == InitWith(PoaEngines)

CallSimplePoaValidate ==
    /\ Calling("SimplePoa", "validate")
    /\ Return(SimplePoa_validate(engine, parent_digest, header))

CallSimplePoaSeal ==
    /\ Calling("SimplePoa", "seal")
    /\ Return(SimplePoa_seal(engine, parent_digest, header))

CallByHeightValidate ==
    /\ Calling("PoaRoundRobinByHeight", "validate")
    /\ Return(PoaRoundRobinByHeight_validate(engine, parent_digest, header))

CallByHeightSeal ==
    /\ Calling("PoaRoundRobinByHeight", "seal")
    /\ Return(PoaRoundRobinByHeight_seal(engine, parent_digest, header))

CallBySlotValidate ==
    /\ Calling("PoaRoundRobinBySlot", "validate")
    /\ Return(PoaRoundRobinBySlot_validate(engine, parent_digest, header))

CallBySlotSeal ==
    /\ Calling("PoaRoundRobinBySlot", "seal")
    /\ \E overflow_checks \in BOOLEAN :
          Return(PoaRoundRobinBySlot_seal(engine, parent_digest, header,
                                           overflow_checks))

NextPoa ==
    \/ CallSimplePoaValidate
    \/ CallSimplePoaSeal
    \/ CallByHeightValidate
    \/ CallByHeightSeal
    \/ CallBySlotValidate
    \/ CallBySlotSeal

SpecPoa == InitPoa /\ [][NextPoa]_vars

(***************************************************************************)
(* SpecEvenOnly: calls of EvenOnly over each kind of inner engine.         *)
(***************************************************************************)
InnerEngines ==
    {PoW(t) : t \in U64}
        \cup {SimplePoa(a) : a \in SomeAuthorityLists}
        \cup {PoaRoundRobinByHeight(Authorities),
              PoaRoundRobinBySlot(Authorities)}

EvenOnlyEngines == {EvenOnly(inner) : inner \in InnerEngines}

InitEvenOnly == InitWith(EvenOnlyEngines)

CallEvenOnlyValidate ==
    /\ Calling("EvenOnly", "validate")
    /\ Return(EvenOnly_validate(engine, parent_digest, header))

CallEvenOnlySeal ==
    /\ Calling("EvenOnly", "seal")
    /\ \E overflow_checks \in BOOLEAN :
          Return(EvenOnly_seal(engine, parent_digest, header, overflow_checks))

NextEvenOnly == CallEvenOnlyValidate \/ CallEvenOnlySeal

SpecEvenOnly == InitEvenOnly /\ [][NextEvenOnly]_vars

(***************************************************************************)
(* SpecDouble: calls of DoubleEngine.  It takes no parent digest.          *)
(***************************************************************************)
DefaultableEngines ==
    {PoW(t) : t \in SomeThresholds}
        \cup {SimplePoa(a) : a \in SomeAuthorityLists}
        \cup {PoaRoundRobinByHeight(Authorities)}

DoubleEngines ==
    {DoubleEngine(e1, e2) : e1 \in DefaultableEngines, e2 \in DefaultableEngines}

PartialDoubleHeaders ==
    {DoubleHeader(ph.parent, ph.height, ph.state_root, ph.extrinsics_root,
                  Unit, Unit) : ph \in PartialHeaders}

DoubleHeaders(D1, D2) ==
    {[ph EXCEPT !.consensus_digest = d1, !.consensus_digest2 = d2] :
        ph \in PartialDoubleHeaders, d1 \in Digests(D1), d2 \in Digests(D2)}

InitDouble ==
    /\ engine \in DoubleEngines
    /\ call \in {"validate", "seal"}
    /\ parent_digest = Unit
    /\ header \in (IF call = "validate"
                   THEN DoubleHeaders(DigestType(engine.e1),
                                      DigestType(engine.e2))
                   ELSE PartialDoubleHeaders)
    /\ pc = "call"
    /\ result = NoResult
    /\ NoBlockchain

CallDoubleEngineValidate ==
    /\ Calling("DoubleEngine", "validate")
    /\ Return(DoubleEngine_validate(engine, header))

CallDoubleEngineSeal ==
    /\ Calling("DoubleEngine", "seal")
    /\ \E overflow_checks \in BOOLEAN :
          Return(DoubleEngine_seal(engine, header, overflow_checks))

NextDouble == CallDoubleEngineValidate \/ CallDoubleEngineSeal

SpecDouble == InitDouble /\ [][NextDouble]_vars

(***************************************************************************)
(* SpecForked: calls of Forked, built by the four constructors.            *)
(***************************************************************************)
ForkedEngines ==
    {change_authorities(fh, a1, a2) :
        fh \in ForkHeights, a1 \in SomeAuthorityLists, a2 \in SomeAuthorityLists}
    \cup {change_difficulty(fh, t1, t2) :
        fh \in ForkHeights, t1 \in SomeThresholds, t2 \in SomeThresholds}
    \cup {even_after_given_height(fh, original) :
        fh \in ForkHeights, original \in DefaultableEngines}
    \cup {pow_to_poa(fh, t, a) :
        fh \in ForkHeights, t \in SomeThresholds, a \in SomeAuthorityLists}

InitForked == InitWith(ForkedEngines)

CallForkedValidate ==
    /\ Calling("Forked", "validate")
    /\ Return(Forked_validate(engine, parent_digest, header))

CallForkedSeal ==
    /\ Calling("Forked", "seal")
    /\ \E overflow_checks \in BOOLEAN :
          Return(Forked_seal(engine, parent_digest, header, overflow_checks))

NextForked == CallForkedValidate \/ CallForkedSeal

SpecForked == InitForked /\ [][NextForked]_vars

(***************************************************************************)
(* Properties of PoW (SpecPoW).                                            *)
(***************************************************************************)
Done(kind, op) == pc = "done" /\ call = op /\ engine.kind = kind

SamePartial(h, partial_header) ==
    /\ h.parent = partial_header.parent
    /\ h.height = partial_header.height
    /\ h.state_root = partial_header.state_root
    /\ h.extrinsics_root = partial_header.extrinsics_root

\* C1: PoW::validate returns true if and only if the hash of the whole header
\* (nonce included) is strictly below the engine's threshold, whatever the
\* header, the threshold and the parent digest.
C1_ValidateIffHashBelowThreshold ==
    Done("PoW", "validate") => (result <=> hash(header) < engine.threshold)

\* C2: whenever PoW::seal returns, it returns Some(h) where h keeps the
\* partial header's parent, height, state_root and extrinsics_root, the hash
\* of h is below the threshold, and PoW::validate accepts h for every parent
\* digest.
C2_SealReturnsValidHeader ==
    (Done("PoW", "seal") /\ Returned(result)) =>
        /\ result.tag = "Some"
        /\ SamePartial(result.header, header)
        /\ hash(result.header) < engine.threshold
        /\ \A pd \in U64 : PoW_validate(engine, pd, result.header)

(***************************************************************************)
(* Properties of the proof-of-authority engines (SpecPoa).                 *)
(***************************************************************************)
\* C3: for SimplePoa, PoaRoundRobinByHeight and PoaRoundRobinBySlot, with any
\* authority list, parent digest and partial header: a header that seal
\* returns is accepted by validate of the same engine with the same parent
\* digest.
C3_SealThenValidate ==
    (pc = "done" /\ call = "seal" /\ result.tag = "Some") =>
        validate(engine, parent_digest, result.header)

\* C10: PoaRoundRobinByHeight::validate accepts a header of height n if and
\* only if its digest is from_index(n), whatever the parent digest, and seal
\* on a partial header of height n always returns Some header whose digest is
\* from_index(n).
C10_RoundRobinByHeight ==
    /\ Done("PoaRoundRobinByHeight", "validate") =>
          (result <=> header.consensus_digest = from_index(header.height))
    /\ Done("PoaRoundRobinByHeight", "seal") =>
          /\ result.tag = "Some"
          /\ result.header.consensus_digest = from_index(header.height)

\* an accepted header at a height past the end of the authority list
C10_Witness ==
    /\ Done("PoaRoundRobinByHeight", "validate")
    /\ result = TRUE
    /\ header.height >= Len(Authorities)
    /\ header.consensus_digest # parent_digest

(***************************************************************************)
(* Properties of EvenOnly (SpecEvenOnly).                                  *)
(***************************************************************************)
\* C4: EvenOnly::seal returns Some(h), h being the header the inner engine
\* sealed, whenever the inner seal returns a header that passes
\* EvenOnly::validate; it returns None, without failing, when the inner seal
\* returns None or the sealed header does not pass EvenOnly::validate.
C4_SealReturnsValidatedHeader ==
    Done("EvenOnly", "seal") =>
        \E overflow_checks \in BOOLEAN :
            LET inner == seal(engine.inner, parent_digest, header,
                              overflow_checks)
            IN  /\ Returned(inner) => Returned(result)
                /\ (inner.tag = "Some"
                      /\ EvenOnly_validate(engine, parent_digest, inner.header))
                      => (result.tag = "Some" /\ result.header = inner.header)
                /\ (inner.tag = "None"
                      \/ (inner.tag = "Some"
                            /\ ~EvenOnly_validate(engine, parent_digest,
                                                  inner.header)))
                      => result.tag = "None"

\* C5: EvenOnly::validate is true if and only if the inner engine's validate
\* is true on the same parent digest and header and the header's state_root
\* is even; so every header the wrapper accepts has an even state_root and is
\* accepted by the inner engine alone.
C5_ValidateIffInnerAndEven ==
    Done("EvenOnly", "validate") =>
        /\ result <=> (/\ validate(engine.inner, parent_digest, header)
                       /\ header.state_root % 2 = 0)
        /\ result => (/\ header.state_root % 2 = 0
                      /\ validate(engine.inner, parent_digest, header))

\* the wrapper accepts a header with a non-zero even state_root
C5_Witness ==
    /\ Done("EvenOnly", "validate")
    /\ result = TRUE
    /\ header.state_root > 0
    /\ header.height > 0

(***************************************************************************)
(* Properties of DoubleEngine (SpecDouble).                                *)
(***************************************************************************)
\* C6: DoubleEngine::seal seals with the first inner engine when the partial
\* header's height is even and with the second when it is odd, so the
\* sealing engine alternates along consecutive heights (and is the engine
\* DoubleEngine::validate applies at that height).
C6_SealAlternatesByParity ==
    Done("DoubleEngine", "seal") =>
        /\ result.tag # "NoArm"
        /\ result.tag = "Some" =>
              result.sealed_by = (IF header.height % 2 = 0 THEN "First"
                                  ELSE "Second")

\* C7: DoubleEngine::validate is the first engine's validate on the header
\* carrying only the first sub-digest when the height is even, and the second
\* engine's validate on the header carrying only the second sub-digest when
\* the height is odd; the sub-digest of the other engine never changes the
\* result.
C7_ValidateDispatchesByParity ==
    Done("DoubleEngine", "validate") =>
        LET D1 == DigestType(engine.e1)
            D2 == DigestType(engine.e2)
        IN  IF header.height % 2 = 0
            THEN /\ result = validate(engine.e1, Default(D1),
                            Header(header.parent, header.height,
                                   header.state_root, header.extrinsics_root,
                                   header.consensus_digest))
                 /\ \A d2 \in Digests(D2) :
                       DoubleEngine_validate(engine,
                           [header EXCEPT !.consensus_digest2 = d2]) = result
            ELSE /\ result = validate(engine.e2, Default(D2),
                            Header(header.parent, header.height,
                                   header.state_root, header.extrinsics_root,
                                   header.consensus_digest2))
                 /\ \A d1 \in Digests(D1) :
                       DoubleEngine_validate(engine,
                           [header EXCEPT !.consensus_digest = d1]) = result

\* an odd-height header accepted on its second sub-digest although the first
\* engine rejects its first sub-digest
C7_Witness ==
    /\ Done("DoubleEngine", "validate")
    /\ header.height % 2 = 1
    /\ result = TRUE
    /\ ~validate(engine.e1, Default(DigestType(engine.e1)),
                 to_header(header, header.consensus_digest))

(***************************************************************************)
(* Properties of Forked (SpecForked).                                      *)
(***************************************************************************)
\* the engine the fork height assigns to a height: "before" strictly below
\* the fork height, "after" from the fork height on
Governing(self, height) ==
    IF height < self.fork_height THEN self.before ELSE self.after

\* C8: Forked::validate and Forked::seal on a header of height h delegate to
\* "before" exactly when h < fork_height and to "after" exactly when
\* h >= fork_height; the result is the chosen engine's result on the
\* converted parent digest and header, and seal keeps parent, height,
\* state_root and extrinsics_root.
C8_ForkedDelegatesByHeight ==
    LET chosen == Governing(engine, header.height)
        inner_pd == Into(engine.digest, DigestType(chosen), parent_digest)
    IN  /\ Done("Forked", "validate") =>
              result = validate(chosen, inner_pd,
                          convert_to_digest(header,
                              Into(engine.digest, DigestType(chosen),
                                   header.consensus_digest)))
        /\ Done("Forked", "seal") =>
              \E overflow_checks \in BOOLEAN :
                  LET inner == seal(chosen, inner_pd, header, overflow_checks)
                  IN  /\ result.tag = inner.tag
                      /\ result.tag = "Some" =>
                            /\ SamePartial(result.header, header)
                            /\ result.header.consensus_digest
                                 = Into(DigestType(chosen), engine.digest,
                                        inner.header.consensus_digest)

\* a header at the fork height itself, accepted by "after" alone
C8_Witness ==
    /\ Done("Forked", "validate")
    /\ header.height = engine.fork_height
    /\ header.height > 0
    /\ result = TRUE
    /\ ~validate(engine.before,
                 Into(engine.digest, DigestType(engine.before), parent_digest),
                 convert_to_digest(header,
                     Into(engine.digest, DigestType(engine.before),
                          header.consensus_digest)))

\* d survives the conversion to the inner digest type D and back
RoundTrips(d, D) ==
    LET back == Into(D, "PowOrPoaDigest", Into("PowOrPoaDigest", D, d))
    IN  back.tag = d.tag /\ back.val = d.val

\* C9: in the pow_to_poa engine the digest conversions are exact (an outer
\* digest converted to an inner digest and back is the original) and validate
\* never accepts on a defaulted value: a header below the fork height with a
\* Poa(_) digest and a header at or above it with a Pow(_) digest are
\* rejected.
C9_ConversionsExact ==
    (Done("Forked", "validate") /\ engine.digest = "PowOrPoaDigest") =>
        /\ RoundTrips(header.consensus_digest, "u64")
        /\ RoundTrips(header.consensus_digest, "ConsensusAuthority")
        /\ (header.height < engine.fork_height
              /\ header.consensus_digest.tag = "Poa") => result = FALSE
        /\ (header.height >= engine.fork_height
              /\ header.consensus_digest.tag = "Pow") => result = FALSE

(***************************************************************************)
(* Properties of PoaRoundRobinBySlot (SpecPoa).                            *)
(***************************************************************************)
\* C11: PoaRoundRobinBySlot::validate accepts a header if and only if its
\* slot is strictly greater than the parent digest's slot and its signer is
\* from_index(slot); so a header whose slot is at most the parent's slot is
\* rejected, slots may skip values, and a header that validates against its
\* predecessor's digest has a strictly greater slot than its predecessor.
C11_BySlotValidate ==
    Done("PoaRoundRobinBySlot", "validate") =>
        LET d == header.consensus_digest
        IN  /\ result <=> (/\ d.slot > parent_digest.slot
                           /\ d.signature = from_index(d.slot))
            /\ d.slot <= parent_digest.slot => result = FALSE
            /\ result = TRUE => parent_digest.slot < d.slot

\* an accepted header that skips a slot
C11_Witness ==
    /\ Done("PoaRoundRobinBySlot", "validate")
    /\ result = TRUE
    /\ header.consensus_digest.slot > parent_digest.slot + 1

(***************************************************************************)
(* c2_blockchain/p4_batched_extrinsics.rs: headers and blocks with batched *)
(* extrinsics.  A call returns Ok(value), or it panics or never ends.      *)
(***************************************************************************)
Ok(v) == [tag |-> "Ok", value |-> v]

\* u64::max_value() / 100, in the scaled-down u64 of the model
THRESHOLD == MaxU64 \div 2

\* a + b in u64: a panic with overflow checks, wrapping without
AddU64(a, b, overflow_checks) ==
    IF a + b > MaxU64 /\ overflow_checks THEN Panic
    ELSE Ok((a + b) % (MaxU64 + 1))

\* the struct Header of this chapter (it stores the state, and a u64 digest)
BlockHeader(parent, height, extrinsics_root, state, consensus_digest) ==
    [parent |-> parent, height |-> height, extrinsics_root |-> extrinsics_root,
     state |-> state, consensus_digest |-> consensus_digest]

\* crate::hash on a Header of this chapter
hash_header(h) ==
    (3 * h.parent + 5 * h.height + 7 * h.extrinsics_root + 11 * h.state
       + h.consensus_digest + 2) % (MaxU64 + 1)

\* crate::hash on a Vec<u64> of extrinsics
RECURSIVE hash_extrinsics(_)
hash_extrinsics(exts) ==
    IF exts = <<>> THEN 1
    ELSE (3 * hash_extrinsics(Tail(exts)) + Head(exts) + 1) % (MaxU64 + 1)

Header_genesis == BlockHeader(0, 0, 0, 0, 0)

\* the loop of Header::child: consensus_digest += 1 until the hash is not
\* above THRESHOLD.  At u64::MAX the increment panics with overflow checks;
\* without them the nonce wraps to 0, where the loop began.
RECURSIVE Header_child_loop(_, _)
Header_child_loop(h, overflow_checks) ==
    IF ~(hash_header(h) > THRESHOLD) THEN Ok(h)
    ELSE IF h.consensus_digest = MaxU64
         THEN (IF overflow_checks THEN Panic ELSE Diverge)
         ELSE Header_child_loop([h EXCEPT !.consensus_digest = @ + 1],
                                overflow_checks)

Header_child(self, extrinsics_root, state, overflow_checks) ==
    LET height == AddU64(self.height, 1, overflow_checks)
    IN  IF height.tag # "Ok" THEN height
        ELSE Header_child_loop(
                 BlockHeader(hash_header(self), height.value, extrinsics_root,
                             state, 0),
                 overflow_checks)

\* child.parent == hash(self) && child.height == self.height + 1: the sum is
\* only computed when the parent hash matches
Header_verify_child(self, child, overflow_checks) ==
    IF child.parent # hash_header(self) THEN Ok(FALSE)
    ELSE LET height == AddU64(self.height, 1, overflow_checks)
         IN  IF height.tag # "Ok" THEN height
             ELSE Ok(child.height = height.value)

\* for i in 1..chain.len(): chain[i - 1].verify_child(&chain[i]); self is
\* never looked at
RECURSIVE Header_verify_sub_chain_from(_, _, _)
Header_verify_sub_chain_from(headers, i, overflow_checks) ==
    IF i > Len(headers) THEN Ok(TRUE)
    ELSE LET linked == Header_verify_child(headers[i - 1], headers[i],
                                           overflow_checks)
         IN  IF linked.tag # "Ok" THEN linked
             ELSE IF ~linked.value THEN Ok(FALSE)
             ELSE Header_verify_sub_chain_from(headers, i + 1,
                                               overflow_checks)

\* the slice is 1-indexed here: the loop variable i of the source is i - 1
Header_verify_sub_chain(self, headers, overflow_checks) ==
    Header_verify_sub_chain_from(headers, 2, overflow_checks)

Block(h, body) == [header |-> h, body |-> body]

Block_genesis == Block(Header_genesis, <<>>)

RECURSIVE execute_exts(_, _, _)
execute_exts(prev_state, exts, overflow_checks) ==
    IF exts = <<>> THEN Ok(prev_state)
    ELSE LET sum == AddU64(prev_state, Head(exts), overflow_checks)
         IN  IF sum.tag # "Ok" THEN sum
             ELSE execute_exts(sum.value, Tail(exts), overflow_checks)

Block_child(self, extrinsics, overflow_checks) ==
    LET new_state == execute_exts(self.header.state, extrinsics,
                                  overflow_checks)
    IN  IF new_state.tag # "Ok" THEN new_state
        ELSE LET h == Header_child(self.header, hash_extrinsics(extrinsics),
                                   new_state.value, overflow_checks)
             IN  IF h.tag # "Ok" THEN h
                 ELSE Ok(Block(h.value, extrinsics))

\* header_cond and body_cond are both computed before they are combined
verify_block_child(parent, child, overflow_checks) ==
    LET header_cond == Header_verify_child(parent.header, child.header,
                                           overflow_checks)
        executed == execute_exts(parent.header.state, child.body,
                                 overflow_checks)
    IN  IF header_cond.tag # "Ok" THEN header_cond
        ELSE IF executed.tag # "Ok" THEN executed
        ELSE Ok(header_cond.value /\ child.header.state = executed.value)

\* for i in 0..chain.len() - 1: verify_block_child(&chain[i], &chain[i+1]),
\* with the sequence 1-indexed
RECURSIVE Block_verify_sub_chain_from(_, _, _)
Block_verify_sub_chain_from(blocks, i, overflow_checks) ==
    IF i >= Len(blocks) THEN Ok(TRUE)
    ELSE LET ok == verify_block_child(blocks[i], blocks[i + 1],
                                      overflow_checks)
         IN  IF ok.tag # "Ok" THEN ok
             ELSE IF ~ok.value THEN Ok(FALSE)
             ELSE Block_verify_sub_chain_from(blocks, i + 1, overflow_checks)

\* chain[0] of an empty slice is an index out of bounds: a panic
Block_verify_sub_chain(self, blocks, overflow_checks) ==
    IF blocks = <<>> THEN Panic
    ELSE LET first == verify_block_child(self, blocks[1], overflow_checks)
         IN  IF first.tag # "Ok" THEN first
             ELSE IF ~first.value THEN Ok(FALSE)
             ELSE Block_verify_sub_chain_from(blocks, 1, overflow_checks)

build_invalid_child_block_with_valid_header(parent, overflow_checks) ==
    LET h == Header_child(parent, 0, MaxU64, overflow_checks)
    IN  IF h.tag # "Ok" THEN h ELSE Ok(Block(h.value, <<>>))

(***************************************************************************)
(* SpecVerify: calls of Block::verify_sub_chain and                        *)
(* Header::verify_sub_chain on a block (header) and a slice of blocks      *)
(* (headers): the blocks Block::child builds from genesis, and copies of   *)
(* them with the body, the height or the state changed.                    *)
(***************************************************************************)
MaxChainLen == 2

ExtLists == {<<>>, <<1>>, <<MaxU64>>}

Children(parents) ==
    {Block_child(b, e, FALSE).value :
        <<b, e>> \in {pe \in parents \X ExtLists :
                         Block_child(pe[1], pe[2], FALSE).tag = "Ok"}}

Generation1 == Children({Block_genesis})

Generation2 == Children(Generation1)

Tampered ==
    {[b EXCEPT !.body = <<>>] : b \in Generation1 \cup Generation2}
        \cup {[b EXCEPT !.header.height = MaxU64] : b \in Generation1}
        \cup {[b EXCEPT !.header.state = MaxU64] : b \in Generation1}
        \cup {build_invalid_child_block_with_valid_header(
                  Header_genesis, FALSE).value}

SampleBlocks ==
    {Block_genesis} \cup Generation1 \cup Generation2 \cup Tampered

SelfBlocks == {Block_genesis} \cup Generation1

\* the sequences over S of length 0..n
RECURSIVE SeqsUpTo(_, _)
SeqsUpTo(S, n) ==
    IF n = 0 THEN {<<>>}
    ELSE LET shorter == SeqsUpTo(S, n - 1)
         IN  shorter \cup {Append(s, x) : s \in shorter, x \in S}

BlockChains == SeqsUpTo(SampleBlocks, MaxChainLen)

HeadersOf(blocks) == [i \in 1..Len(blocks) |-> blocks[i].header]

NoConsensus == engine = Unit /\ parent_digest = Unit /\ header = Unit

\* a single call, made in a build of either kind
NoBuild == extrinsics_given = Unit /\ checked_build = Unit

InitVerify ==
    /\ call \in {"Block::verify_sub_chain", "Header::verify_sub_chain"}
    /\ \E b \in SelfBlocks, c \in BlockChains :
          IF call = "Block::verify_sub_chain"
          THEN block = b /\ chain = c
          ELSE block = b.header /\ chain = HeadersOf(c)
    /\ hard_threshold = Unit
    /\ pc = "call"
    /\ result = NoResult
    /\ NoBuild
    /\ NoConsensus

ReturnC2(r) ==
    /\ result' = r
    /\ pc' = "done"
    /\ UNCHANGED <<engine, call, parent_digest, header, block, chain,
                   hard_threshold, extrinsics_given, checked_build>>

CallBlockVerifySubChain ==
    /\ pc = "call" /\ call = "Block::verify_sub_chain"
    /\ \E overflow_checks \in BOOLEAN :
          ReturnC2(Block_verify_sub_chain(block, chain, overflow_checks))

CallHeaderVerifySubChain ==
    /\ pc = "call" /\ call = "Header::verify_sub_chain"
    /\ \E overflow_checks \in BOOLEAN :
          ReturnC2(Header_verify_sub_chain(block, chain, overflow_checks))

NextVerify == CallBlockVerifySubChain \/ CallHeaderVerifySubChain

SpecVerify == InitVerify /\ [][NextVerify]_vars

(***************************************************************************)
(* Properties of chain verification (SpecVerify).                          *)
(***************************************************************************)
DoneC2(op) == pc = "done" /\ call = op

RECURSIVE Sum(_)
Sum(exts) == IF exts = <<>> THEN 0 ELSE Head(exts) + Sum(Tail(exts))

\* the header linkage of verify_child, in u64 arithmetic
Links(parent_header, child_header) ==
    /\ child_header.parent = hash_header(parent_header)
    /\ child_header.height = (parent_header.height + 1) % (MaxU64 + 1)

\* the three conditions of verify_block_child, in u64 arithmetic
PairPasses(parent, child) ==
    /\ Links(parent.header, child.header)
    /\ child.header.state
         = (parent.header.state + Sum(child.body)) % (MaxU64 + 1)

AllPairsPass(self, blocks) ==
    /\ PairPasses(self, blocks[1])
    /\ \A i \in 1..(Len(blocks) - 1) : PairPasses(blocks[i], blocks[i + 1])

\* C12: for a non-empty sequence of blocks, Block::verify_sub_chain returns
\* true if and only if every consecutive pair of (self, chain[0], chain[1],
\* ...) passes verify_block_child, that is the child's parent is the hash of
\* the parent's header, its height is the parent's plus one and its state is
\* the parent's plus the sum of its body; one failing pair makes the result
\* false.
C12_VerifySubChainIffAllPairs ==
    (DoneC2("Block::verify_sub_chain") /\ chain # <<>>) =>
        /\ result.tag = "Ok"
        /\ result.value <=> AllPairsPass(block, chain)

\* what holds of Block::verify_sub_chain on a non-empty sequence: whenever the
\* call returns, it returns whether every consecutive pair passes
VerifySubChainWhenReturned ==
    (DoneC2("Block::verify_sub_chain") /\ chain # <<>> /\ result.tag = "Ok")
        => (result.value <=> AllPairsPass(block, chain))

\* C13: on an empty continuation Block::verify_sub_chain completes and returns
\* true, for the genesis block as for any block.
C13_EmptyContinuationIsValid ==
    (DoneC2("Block::verify_sub_chain") /\ chain = <<>>) =>
        (result.tag = "Ok" /\ result.value = TRUE)

\* C18: Header::verify_sub_chain returns true if and only if the headers form
\* a valid chain from this header to the tip: self.verify_child(chain[0])
\* holds and chain[i-1].verify_child(chain[i]) holds for every i >= 1; a first
\* header that does not link to self makes the result false.
C18_HeaderSubChainFromSelf ==
    (DoneC2("Header::verify_sub_chain") /\ chain # <<>> /\ result.tag = "Ok")
        => (result.value <=>
               /\ Links(block, chain[1])
               /\ \A i \in 1..(Len(chain) - 1) : Links(chain[i], chain[i + 1]))

(***************************************************************************)
(* c2_blockchain/p5_fork_choice.rs                                         *)
(*                                                                         *)
(* A fork choice rule is named by its type.  first_chain_is_better and     *)
(* best_chain are associated functions of the ForkChoice trait; the        *)
(* provided best_chain is a fold over first_chain_is_better, and           *)
(* LongestChainRule overrides it.  THRESHOLD of this file is the same      *)
(* expression as in p4_batched_extrinsics.rs.                              *)
(***************************************************************************)
LongestChainRule == "LongestChainRule"
HeaviestChainRule == "HeaviestChainRule"
MostBlocksWithEvenHash == "MostBlocksWithEvenHash"

LongestChainRule_first_chain_is_better(chain_1, chain_2) ==
    Ok(Len(chain_1) >= Len(chain_2))

\* a search that moves to a later candidate of the same length
RECURSIVE LongestChainRule_best_index_latest(_, _, _, _)
LongestChainRule_best_index_latest(candidate_chains, i, best_length, best_index) ==
    IF i > Len(candidate_chains) THEN best_index
    ELSE IF Len(candidate_chains[i]) >= best_length
         THEN LongestChainRule_best_index_latest(
                  candidate_chains, i + 1, Len(candidate_chains[i]), i)
         ELSE LongestChainRule_best_index_latest(
                  candidate_chains, i + 1, best_length, best_index)

\* for i in 1..candidate_chains.len() of the override (indices from 1 here)
RECURSIVE LongestChainRule_best_index(_, _, _, _)
LongestChainRule_best_index(candidate_chains, i, best_length, best_index) ==
    IF i > Len(candidate_chains) THEN best_index
    ELSE IF Len(candidate_chains[i]) > best_length
         THEN LongestChainRule_best_index(
                  candidate_chains, i + 1, Len(candidate_chains[i]), i)
         ELSE LongestChainRule_best_index(
                  candidate_chains, i + 1, best_length, best_index)

\* candidate_chains[0] panics on an empty list
LongestChainRule_best_chain(candidate_chains) ==
    IF candidate_chains = <<>> THEN Panic
    ELSE Ok(candidate_chains[
                LongestChainRule_best_index(
                    candidate_chains, 2, Len(candidate_chains[1]), 1)])

\* mine_extra_hard: consensus_digest += 1 while the hash is above threshold.
\* steps counts the increments: after MaxU64 + 1 of them every nonce has been
\* tried and the loop never ends.
RECURSIVE mine_extra_hard_loop(_, _, _, _)
mine_extra_hard_loop(h, threshold, overflow_checks, steps) ==
    IF ~(hash_header(h) > threshold) THEN Ok(h)
    ELSE IF steps > MaxU64 THEN Diverge
    ELSE LET nonce == AddU64(h.consensus_digest, 1, overflow_checks)
         IN  IF nonce.tag # "Ok" THEN nonce
             ELSE mine_extra_hard_loop(
                      [h EXCEPT !.consensus_digest = nonce.value],
                      threshold, overflow_checks, steps + 1)

mine_extra_hard(h, threshold, overflow_checks) ==
    mine_extra_hard_loop(h, threshold, overflow_checks, 0)

\* THRESHOLD - hash(header) on u64: below zero it panics with overflow checks
\* and wraps without them
SubU64(a, b, overflow_checks) ==
    IF a - b < 0 /\ overflow_checks THEN Panic
    ELSE Ok((a - b) % (MaxU64 + 1))

\* for header in chain { weight += THRESHOLD - hash(header) }
RECURSIVE HeaviestChainRule_weight(_, _, _, _)
HeaviestChainRule_weight(headers, i, weight, overflow_checks) ==
    IF i > Len(headers) THEN Ok(weight)
    ELSE LET work == SubU64(THRESHOLD, hash_header(headers[i]),
                            overflow_checks)
         IN  IF work.tag # "Ok" THEN work
             ELSE LET sum == AddU64(weight, work.value, overflow_checks)
                  IN  IF sum.tag # "Ok" THEN sum
                      ELSE HeaviestChainRule_weight(headers, i + 1, sum.value,
                                                    overflow_checks)

HeaviestChainRule_first_chain_is_better(chain_1, chain_2, overflow_checks) ==
    LET weight_1 == HeaviestChainRule_weight(chain_1, 1, 0, overflow_checks)
        weight_2 == HeaviestChainRule_weight(chain_2, 1, 0, overflow_checks)
    IN  IF weight_1.tag # "Ok" THEN weight_1
        ELSE IF weight_2.tag # "Ok" THEN weight_2
        ELSE Ok(weight_1.value >= weight_2.value)

\* for header in chain { count += 1 - (hash(header) & 1) }
RECURSIVE MostBlocksWithEvenHash_count(_)
MostBlocksWithEvenHash_count(headers) ==
    IF headers = <<>> THEN 0
    ELSE (1 - (hash_header(Head(headers)) % 2))
         + MostBlocksWithEvenHash_count(Tail(headers))

MostBlocksWithEvenHash_first_chain_is_better(chain_1, chain_2) ==
    Ok(MostBlocksWithEvenHash_count(chain_1)
         > MostBlocksWithEvenHash_count(chain_2))

\* Self::first_chain_is_better of the rule the trait is implemented for
first_chain_is_better(rule, chain_1, chain_2, overflow_checks) ==
    CASE rule = LongestChainRule ->
            LongestChainRule_first_chain_is_better(chain_1, chain_2)
      [] rule = HeaviestChainRule ->
            HeaviestChainRule_first_chain_is_better(chain_1, chain_2,
                                                    overflow_checks)
      [] rule = MostBlocksWithEvenHash ->
            MostBlocksWithEvenHash_first_chain_is_better(chain_1, chain_2)

\* the loop of the provided best_chain: best is kept when it is better than
\* candidate_chains[i], replaced by candidate_chains[i] otherwise
RECURSIVE ForkChoice_best_chain_loop(_, _, _, _, _)
ForkChoice_best_chain_loop(rule, candidate_chains, i, best, overflow_checks) ==
    IF i > Len(candidate_chains) THEN Ok(best)
    ELSE LET better == first_chain_is_better(rule, best,
                                             candidate_chains[i],
                                             overflow_checks)
         IN  IF better.tag # "Ok" THEN better
             ELSE ForkChoice_best_chain_loop(
                      rule, candidate_chains, i + 1,
                      IF better.value THEN best ELSE candidate_chains[i],
                      overflow_checks)

ForkChoice_best_chain(rule, candidate_chains, overflow_checks) ==
    IF candidate_chains = <<>> THEN Panic
    ELSE ForkChoice_best_chain_loop(rule, candidate_chains, 2,
                                    candidate_chains[1], overflow_checks)

\* Rule::best_chain: the override where there is one, the provided method
\* otherwise
best_chain(rule, candidate_chains, overflow_checks) ==
    IF rule = LongestChainRule
    THEN LongestChainRule_best_chain(candidate_chains)
    ELSE ForkChoice_best_chain(rule, candidate_chains, overflow_checks)

(***************************************************************************)
(* Fork choice and extra mining, one call at a time (SpecForkChoice).      *)
(* The chains are valid header chains: the genesis header, its extensions  *)
(* by one header with every nonce (verify_child does not look at the       *)
(* nonce), one extension by two headers, and the suffixes without genesis. *)
(* engine holds the rule, chain the candidate list (for                    *)
(* first_chain_is_better it is <<chain_1, chain_2>>) and block the header  *)
(* given to mine_extra_hard.                                               *)
(***************************************************************************)
MaxCandidates == 3

Extensions(parent) ==
    {BlockHeader(hash_header(parent), parent.height + 1, 0, 0, d) :
        d \in 0..MaxU64}

ForkChains ==
    {<<>>, <<Header_genesis>>}
        \cup {<<Header_genesis, h>> : h \in Extensions(Header_genesis)}
        \cup {<<h>> : h \in Extensions(Header_genesis)}
        \cup {<<Header_genesis, BlockHeader(hash_header(Header_genesis), 1, 0,
                                            0, 0), h>> :
                h \in Extensions(BlockHeader(hash_header(Header_genesis), 1,
                                             0, 0, 0))}

CandidateLists == SeqsUpTo(ForkChains, MaxCandidates)

MinedHeaders == {Header_genesis} \cup Extensions(Header_genesis)

Rules == {LongestChainRule, HeaviestChainRule, MostBlocksWithEvenHash}

InitForkChoice ==
    /\ call \in {"first_chain_is_better", "best_chain", "mine_extra_hard"}
    /\ IF call = "mine_extra_hard"
       THEN /\ engine = Unit
            /\ block \in MinedHeaders
            /\ hard_threshold \in 0..MaxU64
            /\ chain = Unit
       ELSE /\ engine \in Rules
            /\ block = Unit
            /\ hard_threshold = Unit
            /\ chain \in (IF call = "best_chain" THEN CandidateLists
                          ELSE ForkChains \X ForkChains)
    /\ parent_digest = Unit
    /\ header = Unit
    /\ pc = "call"
    /\ result = NoResult
    /\ NoBuild

CallingRule(rule, op) == pc = "call" /\ call = op /\ engine = rule

CallLongestFirstChainIsBetter ==
    /\ CallingRule(LongestChainRule, "first_chain_is_better")
    /\ ReturnC2(LongestChainRule_first_chain_is_better(chain[1], chain[2]))

CallLongestBestChain ==
    /\ CallingRule(LongestChainRule, "best_chain")
    /\ ReturnC2(LongestChainRule_best_chain(chain))

CallHeaviestFirstChainIsBetter ==
    /\ CallingRule(HeaviestChainRule, "first_chain_is_better")
    /\ \E overflow_checks \in BOOLEAN :
          ReturnC2(HeaviestChainRule_first_chain_is_better(
                       chain[1], chain[2], overflow_checks))

CallHeaviestBestChain ==
    /\ CallingRule(HeaviestChainRule, "best_chain")
    /\ \E overflow_checks \in BOOLEAN :
          ReturnC2(best_chain(HeaviestChainRule, chain, overflow_checks))

CallMostEvenFirstChainIsBetter ==
    /\ CallingRule(MostBlocksWithEvenHash, "first_chain_is_better")
    /\ ReturnC2(MostBlocksWithEvenHash_first_chain_is_better(chain[1],
                                                             chain[2]))

CallMostEvenBestChain ==
    /\ CallingRule(MostBlocksWithEvenHash, "best_chain")
    /\ \E overflow_checks \in BOOLEAN :
          ReturnC2(best_chain(MostBlocksWithEvenHash, chain, overflow_checks))

CallMineExtraHard ==
    /\ pc = "call" /\ call = "mine_extra_hard"
    /\ \E overflow_checks \in BOOLEAN :
          ReturnC2(mine_extra_hard(block, hard_threshold, overflow_checks))

NextForkChoice ==
    \/ CallLongestFirstChainIsBetter
    \/ CallLongestBestChain
    \/ CallHeaviestFirstChainIsBetter
    \/ CallHeaviestBestChain
    \/ CallMostEvenFirstChainIsBetter
    \/ CallMostEvenBestChain
    \/ CallMineExtraHard

SpecForkChoice == InitForkChoice /\ [][NextForkChoice]_vars

(***************************************************************************)
(* Properties of the fork choice rules (SpecForkChoice).                   *)
(***************************************************************************)
DoneRule(rule, op) == pc = "done" /\ call = op /\ engine = rule

\* the earliest index at which measure is maximal over the candidates
EarliestMax(measure(_), candidates) ==
    CHOOSE i \in 1..Len(candidates) :
        /\ \A j \in 1..Len(candidates) :
              measure(candidates[j]) <= measure(candidates[i])
        /\ \A j \in 1..(i - 1) :
              measure(candidates[j]) < measure(candidates[i])

\* C14: LongestChainRule::first_chain_is_better(c1, c2) is true iff
\* len(c1) >= len(c2), and for every non-empty candidate list the overridden
\* LongestChainRule::best_chain returns what the provided left-to-right fold
\* over first_chain_is_better returns: the earliest candidate of maximal
\* length.
C14_LongestChain ==
    /\ DoneRule(LongestChainRule, "first_chain_is_better") =>
          /\ result.tag = "Ok"
          /\ result.value <=> (Len(chain[1]) >= Len(chain[2]))
    /\ (DoneRule(LongestChainRule, "best_chain") /\ chain # <<>>) =>
          /\ result = ForkChoice_best_chain(LongestChainRule, chain, TRUE)
          /\ result.tag = "Ok"
          /\ result.value = chain[EarliestMax(Len, chain)]

\* C14 witness: best_chain has returned the second of three candidates, the
\* first being shorter and the third a different chain of the same length
C14_Witness ==
    /\ DoneRule(LongestChainRule, "best_chain")
    /\ Len(chain) = 3
    /\ Len(chain[1]) < Len(chain[2])
    /\ Len(chain[2]) = Len(chain[3])
    /\ chain[2] # chain[3]
    /\ result.tag = "Ok"
    /\ result.value = chain[2]

\* the exact total of THRESHOLD - hash(header) over a chain, as an integer
RECURSIVE TotalWork(_)
TotalWork(headers) ==
    IF headers = <<>> THEN 0
    ELSE (THRESHOLD - hash_header(Head(headers))) + TotalWork(Tail(headers))

\* C15: HeaviestChainRule::first_chain_is_better(c1, c2) is true iff the total
\* work of c1 is at least that of c2, a header's work being THRESHOLD minus
\* its hash and the totals exact sums; so a header whose hash is above
\* THRESHOLD never counts for more work than one whose hash is below it.
C15_HeaviestChain ==
    DoneRule(HeaviestChainRule, "first_chain_is_better") =>
        /\ result.tag = "Ok"
        /\ result.value <=> (TotalWork(chain[1]) >= TotalWork(chain[2]))

\* the number of headers of a chain whose hash is even
EvenCount(headers) ==
    Cardinality({i \in 1..Len(headers) : hash_header(headers[i]) % 2 = 0})

\* C16: under MostBlocksWithEvenHash the chain with more even-hash headers is
\* better and ties favor the first argument: first_chain_is_better(c1, c2)
\* holds iff c1 has at least as many even-hash headers as c2, and best_chain
\* returns the earliest candidate among those with the maximal count.
C16_MostEvenTiesFavorFirst ==
    /\ DoneRule(MostBlocksWithEvenHash, "first_chain_is_better") =>
          /\ result.tag = "Ok"
          /\ result.value <=> (EvenCount(chain[1]) >= EvenCount(chain[2]))
    /\ (DoneRule(MostBlocksWithEvenHash, "best_chain") /\ chain # <<>>) =>
          /\ result.tag = "Ok"
          /\ result.value = chain[EarliestMax(EvenCount, chain)]

\* C19: after mine_extra_hard(header, threshold) returns, the hash of the
\* header is strictly below threshold, parent, height, extrinsics_root and
\* state are as before, and the nonce is not below its starting value.
C19_MineExtraHard ==
    (DoneC2("mine_extra_hard") /\ result.tag = "Ok") =>
        /\ hash_header(result.value) < hard_threshold
        /\ result.value = [block EXCEPT !.consensus_digest
                                            = result.value.consensus_digest]
        /\ result.value.consensus_digest >= block.consensus_digest

(***************************************************************************)
(* Building a chain (SpecBuild): a program that starts from                *)
(* Block::genesis(), calls Block::child on the last block any number of    *)
(* times and then has genesis verify the rest of the chain.  The build is  *)
(* fixed for the whole run: checked_build tells whether it has overflow    *)
(* checks.  A call that panics ends the program.                           *)
(***************************************************************************)
MaxExtrinsics == 2

BuildExtrinsics == SeqsUpTo({0, 1, MaxU64}, MaxExtrinsics)

InitBuild ==
    /\ chain = <<Block_genesis>>
    /\ extrinsics_given = <<>>
    /\ checked_build \in BOOLEAN
    /\ call = "Block::child"
    /\ pc = "call"
    /\ result = NoResult
    /\ block = Unit
    /\ hard_threshold = Unit
    /\ NoConsensus

CallBlockChild ==
    /\ pc = "call" /\ call = "Block::child"
    /\ Len(extrinsics_given) < MaxChainLen
    /\ \E extrinsics \in BuildExtrinsics :
          LET child == Block_child(chain[Len(chain)], extrinsics,
                                   checked_build)
          IN  /\ extrinsics_given' = Append(extrinsics_given, extrinsics)
              /\ result' = child
              /\ IF child.tag = "Ok"
                 THEN chain' = Append(chain, child.value) /\ pc' = pc
                 ELSE chain' = chain /\ pc' = "done"
    /\ UNCHANGED <<engine, call, parent_digest, header, block,
                   hard_threshold, checked_build>>

CallVerifyBuiltChain ==
    /\ pc = "call" /\ call = "Block::child"
    /\ call' = "Block::verify_sub_chain"
    /\ result' = Block_verify_sub_chain(chain[1], Tail(chain), checked_build)
    /\ pc' = "done"
    /\ UNCHANGED <<engine, parent_digest, header, block, chain,
                   hard_threshold, extrinsics_given, checked_build>>

NextBuild == CallBlockChild \/ CallVerifyBuiltChain

SpecBuild == InitBuild /\ [][NextBuild]_vars

\* every block after genesis is the child Block::child was asked for
BuiltBlocksLink ==
    \A i \in 2..Len(chain) :
        /\ chain[i].header.height = chain[i - 1].header.height + 1
        /\ chain[i].header.parent = hash_header(chain[i - 1].header)
        /\ chain[i].header.extrinsics_root = hash_extrinsics(chain[i].body)
        /\ chain[i].header.state
             = (chain[i - 1].header.state + Sum(chain[i].body))
                  % (MaxU64 + 1)
        /\ chain[i].body = extrinsics_given[i - 1]

\* C17: any chain built from Block::genesis() by any finite sequence of
\* Block::child calls is valid: every produced block has its parent's height
\* plus one, the hash of its parent's header, the hash of its body as
\* extrinsics_root, its parent's state plus the sum of its body as state and
\* the given extrinsics as body, and genesis.verify_sub_chain(rest of the
\* chain) returns true.
C17_BuiltChainIsValid ==
    /\ BuiltBlocksLink
    /\ DoneC2("Block::verify_sub_chain") =>
          (result.tag = "Ok" /\ result.value = TRUE)

\* what holds of a built chain: the blocks link, and the verification returns
\* true once at least one child has been built
BuiltChainValidAfterFirstChild ==
    /\ BuiltBlocksLink
    /\ (DoneC2("Block::verify_sub_chain") /\ Len(chain) > 1) =>
          (result.tag = "Ok" /\ result.value = TRUE)

(***************************************************************************)
(* Properties of even_after_given_height (SpecForked).                     *)
(***************************************************************************)
\* C20: a chain under even_after_given_height(H, original) keeps growing past
\* the fork: for a partial header of height >= H with an even state_root for
\* which original.seal returns a header valid under original, the forked
\* engine's seal returns Some of that header; below H seal and validate are
\* those of original, with no evenness requirement.
C20_EvenForkKeepsGrowing ==
    (pc = "done" /\ engine.kind = "Forked" /\ engine.after.kind = "EvenOnly")
    =>
    LET original == engine.before
        sealed(overflow_checks) ==
            seal(original, parent_digest, header, overflow_checks)
    IN  /\ (/\ call = "seal"
            /\ header.height >= engine.fork_height
            /\ header.state_root % 2 = 0
            /\ \A overflow_checks \in BOOLEAN :
                  /\ sealed(overflow_checks).tag = "Some"
                  /\ validate(original, parent_digest,
                              sealed(overflow_checks).header))
           => \E overflow_checks \in BOOLEAN :
                 result = sealed(overflow_checks)
        /\ (call = "seal" /\ header.height < engine.fork_height)
           => \E overflow_checks \in BOOLEAN :
                 result = sealed(overflow_checks)
        /\ (call = "validate" /\ header.height < engine.fork_height)
           => result = validate(original, parent_digest, header)

====
